---- MODULE Spec2Model ----
(***************************************************************************)
(* Model of src/app/api/suggestions/route.ts: the OPTIONS responder and    *)
(* the POST handler that validates a request, arms a 20 s abort timer,     *)
(* calls the completion provider once and translates the outcome.          *)
(*                                                                         *)
(* One request is followed from arrival to its response.  The handler      *)
(* keeps no state between requests, so concurrent requests do not          *)
(* interact.  The handler suspends at three awaits (request.json(),        *)
(* fetch(), response.json()); the continuation of an await runs as a       *)
(* microtask of the event that settles it, so each action below is the     *)
(* settling event together with the handler code up to the next await.     *)
(*                                                                         *)
(* Text is a sequence of chunks.  A chunk is either one whitespace         *)
(* character or a run of text that neither starts nor ends with            *)
(* whitespace; the empty string is <<>>.                                   *)
(***************************************************************************)
EXTENDS Integers, Sequences, FiniteSets, TLC

\* Longest provider-generated text, in chunks.
MaxLen == 5

\* Delay of the abort timer in milliseconds.
TimeoutMs == 20000

----------------------------------------------------------------------------
(* JavaScript values as they come out of JSON.parse.                       *)

Undefined == [t |-> "undefined"]
Null == [t |-> "null"]
Str(s) == [t |-> "string", s |-> s]
Num(n) == [t |-> "number", n |-> n]
Arr(a) == [t |-> "array", a |-> a]
Obj(f) == [t |-> "object", f |-> f]

EmptyObj == Obj([k \in {} |-> Undefined])

\* A string literal of the source.
Lit(s) == <<s>>

\* ToBoolean, as applied by !x, filter(Boolean) and x ? a : b.
Truthy(v) ==
    CASE v.t = "undefined" -> FALSE
      [] v.t = "null" -> FALSE
      [] v.t = "string" -> v.s # <<>>
      [] v.t = "number" -> v.n # 0
      [] OTHER -> TRUE

\* v?.k : undefined for null and undefined, and for a value without the key.
Get(v, k) ==
    IF v.t = "object" /\ k \in DOMAIN v.f THEN v.f[k] ELSE Undefined

\* v?.[0] : the first element of an array, the first character of a string.
At0(v) ==
    CASE v.t = "array" /\ Len(v.a) > 0 -> v.a[1]
      [] v.t = "string" /\ Len(v.s) > 0 -> Str(<<Head(v.s)>>)
      [] OTHER -> Undefined

\* a ?? b
Coalesce(a, b) == IF a.t \in {"undefined", "null"} THEN b ELSE a

IsSpace(c) == c \in {" ", "\t", "\n"}

RECURSIVE TrimStart(_)
TrimStart(s) == IF s # <<>> /\ IsSpace(Head(s)) THEN TrimStart(Tail(s)) ELSE s

RECURSIVE TrimEnd(_)
TrimEnd(s) ==
    IF s # <<>> /\ IsSpace(s[Len(s)]) THEN TrimEnd(SubSeq(s, 1, Len(s) - 1)) ELSE s

\* trim() that strips the leading whitespace only.
Trim_LeadingOnly(s) == TrimStart(s)

\* String.prototype.trim
Trim(s) == TrimEnd(TrimStart(s))

----------------------------------------------------------------------------
(* Static tables.                                                          *)

SuggestionField == {"currentFinancialSituation", "employmentCircumstances", "reasonForApplying"}

fieldFocus ==
    [currentFinancialSituation |->
        "current income sources, essential expenses, debts, and concrete examples of financial strain or recent hardship",
     employmentCircumstances |->
        "employment status, hours or income level, stability of work, caregiving or health barriers, and any recent changes affecting employment",
     reasonForApplying |->
        "specific reasons for seeking support now, the type of assistance needed, and how it will help meet urgent household needs"]

fieldGuidance ==
    [currentFinancialSituation |->
        "Begin with the main financial pressure (for example rising bills, debt, or reduced income). Mention amounts when they help explain the strain. Avoid greetings or introductions.",
     employmentCircumstances |->
        "Start by describing the current work situation or lack of work. Include hours worked, pay level, or caregiving/health limits if relevant. Avoid greetings or introductions.",
     reasonForApplying |->
        "Lead with the immediate need for assistance and connect it to day-to-day realities. Highlight how support would be used. Avoid greetings or introductions."]

corsHeaders ==
    [k \in {"Access-Control-Allow-Origin", "Access-Control-Allow-Methods", "Access-Control-Allow-Headers"} |->
        CASE k = "Access-Control-Allow-Origin" -> "*"
          [] k = "Access-Control-Allow-Methods" -> "POST, OPTIONS"
          [] k = "Access-Control-Allow-Headers" -> "Content-Type, Authorization"]

\* table[key] for a key taken from the request: undefined unless the key is
\* a string naming an entry.
Lookup(table, key) ==
    IF key.t = "string" /\ Len(key.s) = 1 /\ key.s[1] \in DOMAIN table
    THEN Str(Lit(table[key.s[1]]))
    ELSE Undefined

----------------------------------------------------------------------------
(* Responses.                                                              *)

NoHeaders == [k \in {} |-> ""]

\* new NextResponse(null, {status})
NewResponse(status) == [status |-> status, body |-> Null, headers |-> NoHeaders]

\* NextResponse.json(body, {status})
JsonResponse(body, status) ==
    [status |-> status, body |-> body,
     headers |-> [k \in {"content-type"} |-> "application/json"]]

ErrorBody(message) == Obj([error |-> message])

\* withCors that sets the origin header only.
withCors_OriginOnly(response) ==
    [response EXCEPT !.headers =
        [k \in DOMAIN response.headers \cup {"Access-Control-Allow-Origin"} |->
            IF k = "Access-Control-Allow-Origin" THEN corsHeaders[k] ELSE response.headers[k]]]

withCors(response) ==
    [response EXCEPT !.headers =
        [k \in DOMAIN response.headers \cup DOMAIN corsHeaders |->
            IF k \in DOMAIN corsHeaders THEN corsHeaders[k] ELSE response.headers[k]]]

\* No response has been returned yet.
NoResponse == [status |-> 0, body |-> Undefined, headers |-> NoHeaders]

----------------------------------------------------------------------------
(* Exceptions: the name and message of a thrown Error.                     *)

Err(name, message) == [name |-> name, message |-> Str(Lit(message))]

AbortError == Err("AbortError", "This operation was aborted")

\* A catch block that looks for the name raised by AbortSignal.timeout().
CatchResponse_TimeoutName(error) ==
    IF error.name = "TimeoutError"
    THEN withCors(JsonResponse(ErrorBody(Str(Lit("The request timed out."))), 504))
    ELSE withCors(JsonResponse(
            ErrorBody(Coalesce(error.message, Str(Lit("Unable to generate suggestion.")))), 500))

\* The catch block of POST.
CatchResponse(error) ==
    IF error.name = "AbortError"
    THEN withCors(JsonResponse(ErrorBody(Str(Lit("The request timed out."))), 504))
    ELSE withCors(JsonResponse(
            ErrorBody(Coalesce(error.message, Str(Lit("Unable to generate suggestion.")))), 500))

----------------------------------------------------------------------------
(* The outbound request.                                                   *)

\* `${v}` inside a template literal.
ToText(v) == IF v.t = "string" THEN v.s ELSE Lit(v.t)

RECURSIVE Join(_, _)
\* Array.prototype.join on an array of strings.
Join(parts, sep) ==
    IF parts = <<>> THEN <<>>
    ELSE IF Len(parts) = 1 THEN parts[1].s
    ELSE parts[1].s \o sep \o Join(Tail(parts), sep)

SystemContent(body) ==
    Lit("You are assisting with drafting a government social support application. Write in the applicant's first-person voice as if they are typing their own paragraph. Keep the tone sincere, respectful, and grounded in practical details. Never use greetings, introductions, or phrases like \"Hello\" or \"My name is\". Do not repeat names, ID numbers, phone numbers, or other personal identifiers. Focus tightly on")
    \o <<" ">> \o ToText(Lookup(fieldFocus, Get(body, "field")))
    \o Lit(". Limit the response to one paragraph under 120 words, avoid bullet lists, and never refer to yourself as an assistant or AI.")

UserContent(body) ==
    Join(SelectSeq(
        << Str(Lit("Write the paragraph in") \o <<" ">>
               \o Lit(IF Get(body, "language") = Str(Lit("ar")) THEN "Arabic" ELSE "English")
               \o Lit(".")),
           Str(Lit("Sound like a real person describing lived experience in a warm but direct way. Do not start with a greeting.")),
           Lookup(fieldGuidance, Get(body, "field")),
           IF Truthy(Get(body, "applicantDetails"))
           THEN Str(Lit("Applicant context:") \o <<" ">>
                    \o ToText(Get(body, "applicantDetails")) \o Lit("."))
           ELSE Str(<<>>),
           IF Truthy(Get(body, "existingText"))
           THEN Str(Lit("Applicant notes:") \o <<" ">> \o ToText(Get(body, "existingText")))
           ELSE Str(<<>>) >>,
        Truthy), <<" ">>)

\* The argument of fetch().
BuildRequest(body) ==
    [url |-> "https://api.openai.com/v1/chat/completions",
     method |-> "POST",
     messages |-> << [role |-> "system", content |-> SystemContent(body)],
                     [role |-> "user", content |-> UserContent(body)] >>]

NoRequest == [url |-> "", method |-> "", messages |-> <<>>]

\* A validation that tests field only.
MissingRequired_FieldOnly(body) == ~Truthy(Get(body, "field"))

\* !body?.field || !body?.language
MissingRequired(body) ==
    ~Truthy(Get(body, "field")) \/ ~Truthy(Get(body, "language"))

\* response.ok
Ok(status) == status >= 200 /\ status <= 299

----------------------------------------------------------------------------
(* Translation of the provider's answer.                                   *)

\* errorPayload?.error?.message ?? generic, without the typeof test.
ErrorMessage_Unchecked(errorPayload) ==
    Coalesce(Get(Get(errorPayload, "error"), "message"), Str(Lit("Unable to generate suggestion.")))

\* typeof errorPayload?.error?.message === 'string' ? ... : generic
ErrorMessage(errorPayload) ==
    IF Get(Get(errorPayload, "error"), "message").t = "string"
    THEN Get(Get(errorPayload, "error"), "message")
    ELSE Str(Lit("Unable to generate suggestion."))

\* data?.choices?.[0]?.message?.content
ExtractContent(data) == Get(Get(At0(Get(data, "choices")), "message"), "content")

\* A handler that tests content === undefined instead of !content.
ContentResponse_UndefinedOnly(content) ==
    IF content = Undefined
    THEN withCors(JsonResponse(ErrorBody(Str(Lit("No suggestion received."))), 500))
    ELSE IF content.t # "string"
    THEN CatchResponse(Err("TypeError", "content.trim is not a function"))
    ELSE withCors(JsonResponse(Obj([suggestion |-> Str(Trim(content.s))]), 200))

\* The handler from `const content` to its return.  content.trim() throws a
\* TypeError when content is truthy and not a string.
ContentResponse(content) ==
    IF ~Truthy(content)
    THEN withCors(JsonResponse(ErrorBody(Str(Lit("No suggestion received."))), 500))
    ELSE IF content.t # "string"
    THEN CatchResponse(Err("TypeError", "content.trim is not a function"))
    ELSE withCors(JsonResponse(Obj([suggestion |-> Str(Trim(content.s))]), 200))

----------------------------------------------------------------------------
(* Inputs.                                                                 *)

\* The outcome of an awaited promise.
Resolved(v) == [kind |-> "resolved", value |-> v, error |-> Err("", "")]
Rejected(e) == [kind |-> "rejected", value |-> Undefined, error |-> e]
NoOutcome == [kind |-> "none", value |-> Undefined, error |-> Err("", "")]

FieldValues ==
    {Undefined, Null, Str(<<>>), Str(Lit("reasonForApplying")),
     Str(Lit("employmentCircumstances")), Str(Lit("other"))}
LanguageValues == {Undefined, Str(<<>>), Str(Lit("en")), Str(Lit("ar"))}
DetailValues == {Undefined, Str(Lit("two children"))}
NotesValues == {Undefined, Str(<<>>), Str(Lit("lost my job"))}

\* A JSON object holding the keys whose value is given.
MkBody(fl, lg, ad, et) ==
    LET val == [k \in {"field", "language", "applicantDetails", "existingText"} |->
                  CASE k = "field" -> fl
                    [] k = "language" -> lg
                    [] k = "applicantDetails" -> ad
                    [] k = "existingText" -> et]
    IN Obj([k \in {k2 \in DOMAIN val : val[k2] # Undefined} |-> val[k]])

\* What request.json() can settle to.
RequestJsonOutcomes ==
    {Rejected(Err("SyntaxError", "Unexpected end of JSON input"))}
    \cup {Resolved(Null), Resolved(Str(Lit("text"))), Resolved(Num(7))}
    \cup {Resolved(MkBody(fl, lg, ad, et)) :
            fl \in FieldValues, lg \in LanguageValues, ad \in DetailValues, et \in NotesValues}

\* Status codes the provider answers with.
ProviderStatuses == {200, 201, 401, 429, 500, 504}

Chars == {" ", "\n", "a"}
Texts == UNION {[1..n -> Chars] : n \in 0..MaxLen}

Choice(message) == Obj([choices |-> Arr(<<Obj([message |-> message])>>)])

\* Bodies the provider sends, as parsed JSON.
Payloads ==
    {Null, EmptyObj, Str(<<"a">>),
     Obj([choices |-> Arr(<<>>)]),
     Obj([choices |-> Arr(<<EmptyObj>>)]),
     Obj([choices |-> Str(<<"a">>)]),
     Obj([choices |-> Arr(<<Null>>)]),
     Choice(EmptyObj), Choice(Null),
     Choice(Obj([content |-> Null])),
     Choice(Obj([content |-> Num(42)])),
     Obj([error |-> Null]),
     Obj([error |-> Str(Lit("quota exceeded"))]),
     Obj([error |-> EmptyObj]),
     Obj([error |-> Obj([message |-> Num(42)])]),
     Obj([error |-> Obj([message |-> Null])]),
     Obj([error |-> Obj([message |-> Str(<<>>)])]),
     Obj([error |-> Obj([message |-> Str(Lit("quota exceeded"))])]),
     Obj([error |-> Obj([message |-> Str(Lit("The request timed out."))])])}
    \cup {Choice(Obj([content |-> Str(s)])) : s \in Texts}

\* What response.json() can settle to.
ResponseJsonOutcomes ==
    {Rejected(Err("SyntaxError", "Unexpected token < in JSON at position 0")),
     Rejected(Err("TypeError", "terminated"))}
    \cup {Resolved(p) : p \in Payloads}

\* Failures of fetch() other than the abort.
FetchErrors == {Err("TypeError", "fetch failed")}

----------------------------------------------------------------------------
(* State.                                                                  *)

VARIABLES
    pc,             \* "idle", "fetching", "readError", "readData", "done"
    method,         \* "", "OPTIONS", "POST"
    parsed,         \* outcome of request.json()
    timer,          \* the setTimeout handle: state and delay
    aborted,        \* controller.signal.aborted
    fetchState,     \* "none", "pending", "resolved", "rejected", "aborted"
    calls,          \* fetch() calls started
    bodyReads,      \* response.json() calls started on the provider's response
    outbound,       \* the request handed to fetch()
    providerStatus, \* response.status of the provider, 0 before it arrives
    payload,        \* outcome of response.json()
    response        \* what the handler returned

vars == <<pc, method, parsed, timer, aborted, fetchState, calls, bodyReads,
          outbound, providerStatus, payload, response>>

NoTimer == [state |-> "none", delay |-> 0]

Init ==
    /\ pc = "idle"
    /\ method = ""
    /\ parsed = NoOutcome
    /\ timer = NoTimer
    /\ aborted = FALSE
    /\ fetchState = "none"
    /\ calls = 0
    /\ bodyReads = 0
    /\ outbound = NoRequest
    /\ providerStatus = 0
    /\ payload = NoOutcome
    /\ response = NoResponse

\* export function OPTIONS()
OPTIONS ==
    /\ pc = "idle"
    /\ method' = "OPTIONS"
    /\ response' = withCors(NewResponse(204))
    /\ pc' = "done"
    /\ UNCHANGED <<parsed, timer, aborted, fetchState, calls, bodyReads,
                   outbound, providerStatus, payload>>

\* POST from its entry to the await of fetch(): request.json() settles, the
\* body is validated, the timer is armed and fetch() is called.
PostStart(outcome) ==
    /\ pc = "idle"
    /\ method' = "POST"
    /\ parsed' = outcome
    /\ IF outcome.kind = "rejected"
       THEN /\ response' = CatchResponse(outcome.error)
            /\ pc' = "done"
            /\ UNCHANGED <<timer, fetchState, calls, outbound>>
       ELSE IF MissingRequired(outcome.value)
       THEN /\ response' = withCors(JsonResponse(ErrorBody(Str(Lit("Missing required fields."))), 400))
            /\ pc' = "done"
            /\ UNCHANGED <<timer, fetchState, calls, outbound>>
       ELSE /\ timer' = [state |-> "pending", delay |-> TimeoutMs]
            /\ fetchState' = "pending"
            /\ calls' = calls + 1
            /\ outbound' = BuildRequest(outcome.value)
            /\ pc' = "fetching"
            /\ UNCHANGED response
    /\ UNCHANGED <<aborted, bodyReads, providerStatus, payload>>

\* The provider's status line and headers arrive: fetch() resolves, the
\* handler clears the timer and starts reading the body.
FetchResolves(status) ==
    /\ pc = "fetching"
    /\ fetchState = "pending"
    /\ fetchState' = "resolved"
    /\ providerStatus' = status
    /\ timer' = [timer EXCEPT !.state = "cleared"]
    /\ bodyReads' = bodyReads + 1
    /\ pc' = IF Ok(status) THEN "readData" ELSE "readError"
    /\ UNCHANGED <<method, parsed, aborted, calls, outbound, payload, response>>

\* A handler that calls fetch() once more after a failure.
FetchRejects_Retry(error) ==
    /\ pc = "fetching"
    /\ fetchState = "pending"
    /\ calls < 2
    /\ calls' = calls + 1
    /\ UNCHANGED <<pc, method, parsed, timer, aborted, fetchState, bodyReads, outbound,
                   providerStatus, payload, response>>

\* fetch() rejects for a reason other than the abort: the catch block answers.
FetchRejects(error) ==
    /\ pc = "fetching"
    /\ fetchState = "pending"
    /\ fetchState' = "rejected"
    /\ response' = CatchResponse(error)
    /\ pc' = "done"
    /\ UNCHANGED <<method, parsed, timer, aborted, calls, bodyReads, outbound,
                   providerStatus, payload>>

\* The timer callback runs controller.abort(); a fetch() still pending
\* rejects with an AbortError and the catch block answers.
TimerFires ==
    /\ timer.state = "pending"
    /\ timer' = [timer EXCEPT !.state = "fired"]
    /\ aborted' = TRUE
    /\ IF pc = "fetching" /\ fetchState = "pending"
       THEN /\ fetchState' = "aborted"
            /\ response' = CatchResponse(AbortError)
            /\ pc' = "done"
       ELSE UNCHANGED <<fetchState, response, pc>>
    /\ UNCHANGED <<method, parsed, calls, bodyReads, outbound, providerStatus, payload>>

\* response.json() of a non-success answer settles; a rejection is replaced
\* by {} and the provider's status is passed on.
ReadErrorBody(outcome) ==
    /\ pc = "readError"
    /\ payload' = outcome
    /\ response' =
        withCors(JsonResponse(
            ErrorBody(ErrorMessage(IF outcome.kind = "rejected" THEN EmptyObj ELSE outcome.value)),
            providerStatus))
    /\ pc' = "done"
    /\ UNCHANGED <<method, parsed, timer, aborted, fetchState, calls, bodyReads,
                   outbound, providerStatus>>

\* response.json() of a success answer settles.
ReadDataBody(outcome) ==
    /\ pc = "readData"
    /\ payload' = outcome
    /\ response' =
        IF outcome.kind = "rejected"
        THEN CatchResponse(outcome.error)
        ELSE ContentResponse(ExtractContent(outcome.value))
    /\ pc' = "done"
    /\ UNCHANGED <<method, parsed, timer, aborted, fetchState, calls, bodyReads,
                   outbound, providerStatus>>

Next ==
    \/ OPTIONS
    \/ \E outcome \in RequestJsonOutcomes : PostStart(outcome)
    \/ \E status \in ProviderStatuses : FetchResolves(status)
    \/ \E error \in FetchErrors : FetchRejects(error)
    \/ TimerFires
    \/ \E outcome \in ResponseJsonOutcomes : ReadErrorBody(outcome)
    \/ \E outcome \in ResponseJsonOutcomes : ReadDataBody(outcome)

Spec == Init /\ [][Next]_vars

\* The runtime runs the callback of a pending timer; nothing obliges the
\* provider to answer.
FairSpec == Spec /\ WF_vars(TimerFires)

----------------------------------------------------------------------------
(* Properties.  The predicates below describe requests and provider        *)
(* answers from their shape alone, without the handler's own helpers.      *)

GenericMessage == Str(<<"Unable to generate suggestion.">>)

PostParsed == method = "POST" /\ parsed.kind = "resolved"

\* Key k is absent from the parsed body, or is the empty string, or the body is null.
Lacks(b, k) ==
    \/ b = Null
    \/ b.t = "object" /\ (k \notin DOMAIN b.f \/ b.f[k] = Str(<<>>))

\* The body is an object that gives k a non-empty value.
Gives(b, k) ==
    b.t = "object" /\ k \in DOMAIN b.f /\ b.f[k] \notin {Null, Str(<<>>)}

Accepted == PostParsed /\ Gives(parsed.value, "field") /\ Gives(parsed.value, "language")

ProviderAnswered == fetchState = "resolved" /\ pc = "done"

SuccessStatus == providerStatus \in 200..299

\* The provider's body parsed and error.message is a string.
HasStringMessage ==
    /\ payload.kind = "resolved"
    /\ payload.value.t = "object"
    /\ "error" \in DOMAIN payload.value.f
    /\ payload.value.f.error.t = "object"
    /\ "message" \in DOMAIN payload.value.f.error.f
    /\ payload.value.f.error.f.message.t = "string"

\* The provider's body parsed and choices[0].message.content is there and not null.
HasContent ==
    /\ payload.kind = "resolved"
    /\ payload.value.t = "object"
    /\ "choices" \in DOMAIN payload.value.f
    /\ payload.value.f.choices.t = "array"
    /\ Len(payload.value.f.choices.a) > 0
    /\ payload.value.f.choices.a[1].t = "object"
    /\ "message" \in DOMAIN payload.value.f.choices.a[1].f
    /\ payload.value.f.choices.a[1].f.message.t = "object"
    /\ "content" \in DOMAIN payload.value.f.choices.a[1].f.message.f
    /\ payload.value.f.choices.a[1].f.message.f.content # Null

GeneratedContent == payload.value.f.choices.a[1].f.message.f.content

WhiteSpace == {" ", "\t", "\n", "\r"}

\* s is c without its leading and trailing whitespace, the rest untouched.
IsTrimOf(s, c) ==
    \E i \in 0..Len(c), j \in 0..Len(c) :
        /\ i + j <= Len(c)
        /\ s = SubSeq(c, i + 1, Len(c) - j)
        /\ \A k \in 1..i : c[k] \in WhiteSpace
        /\ \A k \in (Len(c) - j + 1)..Len(c) : c[k] \in WhiteSpace
        /\ s # <<>> => (s[1] \notin WhiteSpace /\ s[Len(s)] \notin WhiteSpace)
        /\ s = <<>> => i + j = Len(c)

\* C1: a POST whose parsed body lacks field or language (absent, empty
\* string, or a null body) is answered 400 {error: "Missing required
\* fields."}; no provider call is started and no timer is armed.
C1_MissingFieldsRejected ==
    (PostParsed /\ (Lacks(parsed.value, "field") \/ Lacks(parsed.value, "language")))
    => /\ pc = "done"
       /\ response.status = 400
       /\ response.body = Obj([error |-> Str(<<"Missing required fields.">>)])
       /\ calls = 0
       /\ fetchState = "none"
       /\ timer.state = "none"

C1_Witness ==
    /\ PostParsed
    /\ Gives(parsed.value, "field")
    /\ "language" \notin DOMAIN parsed.value.f
    /\ response.status = 400

\* C2 as stated: a call still pending when the deadline fires is answered
\* 504 {error: "The request timed out."} with no provider interaction after
\* the abort, and a 504 is returned only when the deadline fired.
C2_Original ==
    /\ fetchState = "aborted"
        => /\ pc = "done"
           /\ response.status = 504
           /\ response.body = Obj([error |-> Str(<<"The request timed out.">>)])
           /\ calls = 1
           /\ bodyReads = 0
    /\ (pc = "done" /\ response.status = 504) => timer.state = "fired"

\* C2 amended: a call still pending when the deadline fires is answered
\* 504 {error: "The request timed out."} with one call made and no body
\* read, before or after the abort; a 504 is returned only when the deadline
\* fired on the pending call or the provider itself answered with status 504.
C2_TimeoutIs504 ==
    /\ fetchState = "aborted"
        => /\ pc = "done"
           /\ response.status = 504
           /\ response.body = Obj([error |-> Str(<<"The request timed out.">>)])
           /\ calls = 1
           /\ bodyReads = 0
    /\ (pc = "done" /\ response.status = 504)
        => \/ timer.state = "fired" /\ fetchState = "aborted"
           \/ fetchState = "resolved" /\ providerStatus = 504

C2_Witness ==
    /\ fetchState = "aborted"
    /\ timer.state = "fired"
    /\ aborted
    /\ response.status = 504

\* C3: a non-success provider status S is answered with status S and
\* {error: m}; m is the provider's error.message when the body parses and
\* that field is a string, otherwise "Unable to generate suggestion.".
C3_ProviderErrorPassedOn ==
    (ProviderAnswered /\ ~SuccessStatus)
    => /\ response.status = providerStatus
       /\ response.body =
            Obj([error |-> IF HasStringMessage
                           THEN payload.value.f.error.f.message
                           ELSE GenericMessage])

C3_Witness ==
    /\ ProviderAnswered
    /\ providerStatus = 429
    /\ HasStringMessage
    /\ response.status = 429
    /\ response.body = Obj([error |-> Str(<<"quota exceeded">>)])

\* C4: a success status whose JSON body has no choices[0].message.content
\* is answered 500 {error: "No suggestion received."}, never 200.
C4_EmptyResponseIs500 ==
    (ProviderAnswered /\ SuccessStatus /\ payload.kind = "resolved" /\ ~HasContent)
    => /\ response.status = 500
       /\ response.body = Obj([error |-> Str(<<"No suggestion received.">>)])

C4_Witness ==
    /\ ProviderAnswered
    /\ SuccessStatus
    /\ payload = Resolved(Obj([choices |-> Arr(<<>>)]))
    /\ response.status = 500

\* C5: a success status with generated text at choices[0].message.content
\* is answered 200 {suggestion: s}, s being that text without its leading
\* and trailing whitespace, and the body has no error key.
C5_SuggestionTrimmed ==
    (/\ ProviderAnswered /\ SuccessStatus /\ HasContent
     /\ GeneratedContent.t = "string" /\ GeneratedContent.s # <<>>)
    => /\ response.status = 200
       /\ response.body.t = "object"
       /\ DOMAIN response.body.f = {"suggestion"}
       /\ response.body.f.suggestion.t = "string"
       /\ IsTrimOf(response.body.f.suggestion.s, GeneratedContent.s)

C5_Witness ==
    /\ ProviderAnswered
    /\ HasContent
    /\ GeneratedContent = Str(<<" ", "a", " ", "a", "\n">>)
    /\ response.status = 200
    /\ response.body = Obj([suggestion |-> Str(<<"a", " ", "a">>)])

\* C6: every response returned, by POST on each of its exits and by
\* OPTIONS, carries the three cross-origin headers with their fixed values.
C6_CorsOnEveryResponse ==
    pc = "done"
    => /\ {"Access-Control-Allow-Origin", "Access-Control-Allow-Methods",
           "Access-Control-Allow-Headers"} \subseteq DOMAIN response.headers
       /\ response.headers["Access-Control-Allow-Origin"] = "*"
       /\ response.headers["Access-Control-Allow-Methods"] = "POST, OPTIONS"
       /\ response.headers["Access-Control-Allow-Headers"] = "Content-Type, Authorization"

C6_Witness ==
    /\ pc = "done"
    /\ method = "POST"
    /\ fetchState = "rejected"
    /\ response.status = 500
    /\ response.headers["Access-Control-Allow-Origin"] = "*"

\* C7 as stated: every POST causes exactly one provider call, never zero
\* and never more than one.
C7_Original ==
    /\ calls <= 1
    /\ (method = "POST" /\ pc = "done") => calls = 1

\* C7 amended: a POST whose body parses and gives field and language causes
\* exactly one provider call, any other POST causes none; no request causes
\* more than one, and a failed or timed-out call is not retried.
C7_OneCallPerAcceptedRequest ==
    /\ calls <= 1
    /\ method = "POST" => calls = (IF Accepted THEN 1 ELSE 0)
    /\ fetchState \in {"rejected", "aborted"} => (pc = "done" /\ calls = 1)

C7_Witness ==
    /\ Accepted
    /\ pc = "done"
    /\ fetchState = "rejected"
    /\ calls = 1

\* C8: every POST that starts the provider call eventually returns a
\* response, at whatever stage the provider stalls.
C8_CallIsBounded == (pc = "fetching") ~> (pc = "done")

\* C9: a POST whose body cannot be parsed as JSON is answered 400, and no
\* provider call is made.
C9_MalformedIs400 ==
    (method = "POST" /\ parsed.kind = "rejected")
    => (response.status = 400 /\ calls = 0)

\* C10: once POST has returned its response, the timer armed for the
\* request is not pending: it has fired or been cleared.
C10_NoPendingTimerAfterReturn ==
    pc = "done" => timer.state # "pending"

====
